---- MODULE Spec2Model ----
(***************************************************************************)
(* A model of src/use_whisper.py: the command line tool that resolves an   *)
(* audio file, runs the Whisper library over it, saves the transcript and  *)
(* prints per-segment timestamps.                                          *)
(*                                                                         *)
(* Python strings that the program takes apart (paths, file names,         *)
(* formatted times) are sequences of one-character strings.  Python floats *)
(* are IEEE-754 doubles, modelled exactly as a significand (a sequence of  *)
(* bits, most significant first) and an exponent of two.                   *)
(***************************************************************************)
EXTENDS Integers, Sequences, FiniteSets, TLC


(***************************************************************************)
(* Strings                                                                 *)
(***************************************************************************)
RECURSIVE Flat(_)
\* The concatenation of a sequence of strings.
Flat(parts) == IF Len(parts) = 0 THEN <<>> ELSE Head(parts) \o Flat(Tail(parts))

\* str.lower() on the characters the model uses.
LowerChar(c) ==
    CASE c = "A" -> "a" [] c = "B" -> "b" [] c = "C" -> "c" [] c = "F" -> "f"
      [] c = "L" -> "l" [] c = "M" -> "m" [] c = "P" -> "p" [] c = "V" -> "v"
      [] c = "W" -> "w" [] OTHER -> c

Lower(s) == IF Len(s) = 0 THEN <<>> ELSE [i \in 1..Len(s) |-> LowerChar(s[i])]

\* str.endswith(suffix)
EndsWith(s, suffix) ==
    /\ Len(s) >= Len(suffix)
    /\ SubSeq(s, Len(s) - Len(suffix) + 1, Len(s)) = suffix

\* The largest index of character c in s, 0 when there is none (str.rfind + 1).
RFind(s, c) ==
    LET hits == {i \in 1..Len(s) : s[i] = c}
    IN  IF hits = {} THEN 0 ELSE CHOOSE i \in hits : \A j \in hits : j <= i

DigitChar(d) == <<"0", "1", "2", "3", "4", "5", "6", "7", "8", "9">>[d + 1]

RECURSIVE Decimal(_)
\* str(n) of a natural number.
Decimal(n) == IF n < 10 THEN <<DigitChar(n)>>
              ELSE Append(Decimal(n \div 10), DigitChar(n % 10))

RECURSIVE ZeroPad(_, _)
\* The format specification {n:0w}: zero-padded to at least w characters.
ZeroPad(s, w) == IF Len(s) >= w THEN s ELSE ZeroPad(<<"0">> \o s, w)

(***************************************************************************)
(* Floats: x = value(man) * 2^exp, man a bit sequence, most significant    *)
(* bit first.                                                              *)
(***************************************************************************)
\* The significand width of a Python float (IEEE-754 binary64).
Precision == 53

\* b without its leading zero bits.
StripZeros(b) ==
    LET ones == {i \in 1..Len(b) : b[i] = 1}
    IN  IF ones = {} THEN <<>>
        ELSE SubSeq(b, CHOOSE i \in ones : \A j \in ones : i <= j, Len(b))

Zeros(n) == IF n = 0 THEN <<>> ELSE [i \in 1..n |-> 0]

RECURSIVE Pow2(_)
Pow2(n) == IF n = 0 THEN 1
           ELSE LET h == Pow2(n \div 2) IN IF n % 2 = 0 THEN h * h ELSE 2 * h * h

\* The number of bits of a natural number below 2^31.
BitLength(n) == Cardinality({k \in 0..30 : n \div Pow2(k) > 0})

\* The bits of a natural number, most significant first.
NatBits(n) ==
    LET len == BitLength(n)
    IN  IF len = 0 THEN <<>> ELSE [i \in 1..len |-> (n \div Pow2(len - i)) % 2]

RECURSIVE BitsNat(_)
\* The natural number (below 2^31) that the bits b stand for.
BitsNat(b) ==
    IF Len(b) = 0 THEN 0
    ELSE IF Len(b) = 1 THEN b[1]
    ELSE LET h == Len(b) \div 2
         IN  BitsNat(SubSeq(b, 1, h)) * Pow2(Len(b) - h) + BitsNat(SubSeq(b, h + 1, Len(b)))

\* The n >= 1 low bits of v, most significant first.
FixedBits(v, n) == [i \in 1..n |-> (v \div Pow2(n - i)) % 2]

\* Multi-bit arithmetic works on the last 15 bits at a time, so that every
\* intermediate number stays far below 2^31.
LowLen(b) == IF Len(b) < 15 THEN Len(b) ELSE 15
LowBits(b) == SubSeq(b, Len(b) - LowLen(b) + 1, Len(b))
HighBits(b) == SubSeq(b, 1, Len(b) - LowLen(b))

RECURSIVE MulAdd(_, _, _)
\* The bits of value(b) * c + carry, for c and carry below 2^15.
MulAdd(b, c, carry) ==
    IF Len(b) = 0 THEN NatBits(carry)
    ELSE LET t == BitsNat(LowBits(b)) * c + carry
         IN  MulAdd(HighBits(b), c, t \div Pow2(LowLen(b)))
                 \o FixedBits(t % Pow2(LowLen(b)), LowLen(b))

RECURSIVE DivMod(_, _)
\* Long division of value(b) by d < 2^15: the quotient as Len(b) bits, and the
\* remainder.
DivMod(b, d) ==
    IF Len(b) = 0 THEN [q |-> <<>>, r |-> 0]
    ELSE LET hi == DivMod(HighBits(b), d)
             t  == hi.r * Pow2(LowLen(b)) + BitsNat(LowBits(b))
         IN  [q |-> hi.q \o FixedBits(t \div d, LowLen(b)), r |-> t % d]

\* Trailing zero bits moved into the exponent, so that equal values are equal.
Normal(x) ==
    LET ones == {i \in 1..Len(x.man) : x.man[i] = 1}
        last == CHOOSE i \in ones : \A j \in ones : j <= i
    IN  IF ones = {} THEN [man |-> <<>>, exp |-> 0]
        ELSE [man |-> StripZeros(SubSeq(x.man, 1, last)),
              exp |-> x.exp + Len(x.man) - last]

\* Round to nearest, ties to even, to Precision significant bits; inexact says
\* that bits below the last one of man were already dropped.
RoundFloat(man, exp, inexact) ==
    LET b == StripZeros(man)
    IN  IF Len(b) <= Precision THEN Normal([man |-> b, exp |-> exp])
        ELSE LET keep   == SubSeq(b, 1, Precision)
                 rest   == SubSeq(b, Precision + 1, Len(b))
                 sticky == inexact \/ \E i \in 2..Len(rest) : rest[i] = 1
                 up     == rest[1] = 1 /\ (sticky \/ keep[Precision] = 1)
             IN  Normal([man |-> IF up THEN MulAdd(keep, 1, 1) ELSE keep,
                         exp |-> exp + Len(rest)])

\* The float nearest to the decimal n / 1000: a literal such as 59.999, n = 59999.
FloatOfMillis(n) ==
    LET d == DivMod(NatBits(n) \o Zeros(64), 1000)
    IN  RoundFloat(d.q, -64, d.r # 0)

\* int(x) for x >= 0.
FloatInt(x) ==
    IF x.exp >= 0 THEN BitsNat(x.man \o Zeros(x.exp))
    ELSE IF -x.exp >= Len(x.man) THEN 0
    ELSE BitsNat(SubSeq(x.man, 1, Len(x.man) + x.exp))

\* x - int(x) for x >= 0: the difference is exact.
FloatFrac(x) ==
    IF x.exp >= 0 THEN Normal([man |-> <<>>, exp |-> 0])
    ELSE IF -x.exp >= Len(x.man) THEN x
    ELSE Normal([man |-> StripZeros(SubSeq(x.man, Len(x.man) + x.exp + 1, Len(x.man))),
                 exp |-> x.exp])

\* x * c for a natural number c, rounded as a float product is.
FloatMul(x, c) == RoundFloat(MulAdd(x.man, c, 0), x.exp, FALSE)

\* int(x // d) and int(x % d) for x >= 0 and a natural d: fmod is exact and
\* x - fmod(x, d) is a multiple of d, so both are those of int(x).
FloatFloorDiv(x, d) == FloatInt(x) \div d
FloatModInt(x, d) == FloatInt(x) % d

(***************************************************************************)
(* format_time                                                             *)
(***************************************************************************)
format_time(seconds) ==
    LET milliseconds == FloatInt(FloatMul(FloatFrac(seconds), 1000))
        hours        == FloatFloorDiv(seconds, 3600)
        minutes      == FloatModInt(seconds, 3600) \div 60
        secs         == FloatModInt(seconds, 60)
    IN  Flat(<<ZeroPad(Decimal(hours), 2), <<":">>, ZeroPad(Decimal(minutes), 2), <<":">>,
               ZeroPad(Decimal(secs), 2), <<".">>, ZeroPad(Decimal(milliseconds), 3)>>)

(***************************************************************************)
(* Paths                                                                   *)
(***************************************************************************)
\* Python's None where a string may stand: no string has a two-character element.
NoneStr == <<"--">>

\* Truthiness of an optional string: None and "" are false.
Truthy(s) == s # NoneStr /\ Len(s) > 0

\* os.path.join(a, b) for two components.
PathJoin(a, b) ==
    IF Len(b) > 0 /\ b[1] = "/" THEN b
    ELSE IF Len(a) = 0 \/ a[Len(a)] = "/" THEN a \o b
    ELSE a \o <<"/">> \o b

\* os.path.basename(p)
Basename(p) == SubSeq(p, RFind(p, "/") + 1, Len(p))

\* os.path.splitext(p)[0]: the last dot starts the extension unless only dots
\* stand between the start of the file name and it.
SplitextRoot(p) ==
    LET sep == RFind(p, "/")
        dot == RFind(p, ".")
    IN  IF dot > sep /\ \E i \in (sep + 1)..(dot - 1) : p[i] # "."
        THEN SubSeq(p, 1, dot - 1)
        ELSE p

\* The file system resolves a path from the working directory: a leading "./"
\* names the same file.
RECURSIVE NormPath(_)
NormPath(p) ==
    IF Len(p) >= 2 /\ p[1] = "." /\ p[2] = "/" THEN NormPath(SubSeq(p, 3, Len(p))) ELSE p

DefaultFolder == <<".", "/", "t", "a", "r", "g", "e", "t">>
ResultDir == <<"r", "e", "s", "u", "l", "t">>
TxtSuffix == <<".", "t", "x", "t">>
AudioSuffixes == {<<".", "w", "a", "v">>, <<".", "m", "p", "3">>, <<".", "f", "l", "a", "c">>, <<".", "m", "4", "a">>}

\* A variant that leaves lower() out: f.endswith(...)
IsAudioNameCaseSensitive(f) == \E suffix \in AudioSuffixes : EndsWith(f, suffix)

\* f.lower().endswith(('.wav', '.mp3', '.flac', '.m4a'))
IsAudioName(f) == \E suffix \in AudioSuffixes : EndsWith(Lower(f), suffix)

\* A variant that leaves the condition out: [f for f in names]
Unfiltered(names) == names

RECURSIVE Filter(_)
\* [f for f in names if IsAudioName(f)]
Filter(names) ==
    IF Len(names) = 0 THEN <<>>
    ELSE LET rest == Filter(SubSeq(names, 1, Len(names) - 1))
         IN  IF IsAudioName(names[Len(names)]) THEN Append(rest, names[Len(names)]) ELSE rest

(***************************************************************************)
(* print_word_timestamps                                                   *)
(***************************************************************************)
\* dict.get(key, default) on a record.
Get(d, key, default) == IF key \in DOMAIN d THEN d[key] ELSE default

\* A variant that prints the segment's own bounds, the commented-out seg_start
\* and seg_end of lines 77-78.
SegmentBounds(seg) ==
    LET seg_text == seg.text
        words    == Get(seg, "words", <<>>)
    IN  IF Len(words) > 0
        THEN <<[msg   |-> "segment",
                start |-> format_time(seg.start),
                end   |-> format_time(seg.end),
                text  |-> seg_text]>>
        ELSE <<>>

\* The line print_word_timestamps prints for a segment, as a sequence of lines:
\* none when the segment has no words.
SegmentLines(seg) ==
    LET seg_text == seg.text
        words    == Get(seg, "words", <<>>)
    IN  IF Len(words) > 0
        THEN <<[msg   |-> "segment",
                start |-> format_time(words[1].start),
                end   |-> format_time(words[Len(words)].end),
                text  |-> seg_text]>>
        ELSE <<>>

RECURSIVE LinesOf(_)
\* The for loop over the segments, in order.
LinesOf(segments) ==
    IF Len(segments) = 0 THEN <<>>
    ELSE LinesOf(SubSeq(segments, 1, Len(segments) - 1)) \o SegmentLines(segments[Len(segments)])

\* What print_word_timestamps(full_result) prints.
print_word_timestamps(full_result) == LinesOf(Get(full_result, "segments", <<>>))

(***************************************************************************)
(* The environment: command lines, the file system, the Whisper library    *)
(***************************************************************************)
DemoAudio == <<"t", "a", "r", "g", "e", "t", "/", "d", "e", "m", "o", ".", "w", "a", "v">>
MusicFolder == <<"m", "u", "s", "i", "c", "/">>
MissingFolder == <<"n", "o", "d", "i", "r">>
OutTxt == <<"o", "u", "t", ".", "t", "x", "t">>

AudioArgs == {NoneStr, DemoAudio}
FolderArgs == {NoneStr, MusicFolder, MissingFolder}
OutputArgs == {NoneStr, <<>>, OutTxt}
\* argparse's default is "medium"; the choices are tiny, base, small, medium,
\* large and turbo.
ModelArgs == {"medium"}

Args == [audio_file : AudioArgs, folder : FolderArgs, model : ModelArgs,
         output : OutputArgs, quiet : BOOLEAN]

\* What ./target may hold when the program starts; music/ always exists.
TargetListings ==
    { <<>>,
      <<<<"n", "o", "t", "e", "s", ".", "t", "x", "t">>, <<"w", "a", "v">>>>,
      <<<<"r", "e", "a", "d", "m", "e", ".", "m", "d">>, <<"d", "e", "m", "o", ".", "w", "a", "v">>, <<"b", ".", "m", "p", "3">>>>,
      <<<<"B", ".", "W", "A", "V">>, <<"a", ".", "m", "p", "3">>>>,
      <<<<"x", ".", "w", "a", "v", "y">>, <<".", "f", "l", "a", "c">>>> }

MusicListing == <<<<"c", "o", "v", "e", "r", ".", "j", "p", "g">>, <<"d", "e", "m", "o", ".", "m", "4", "a">>>>

FileSystems ==
    { [d \in {MusicFolder} |-> MusicListing] }
    \cup { [d \in {MusicFolder, DefaultFolder} |->
              IF d = MusicFolder THEN MusicListing ELSE l] : l \in TargetListings }

\* A float given by a decimal literal with three places, and a word.
Sec(millis) == FloatOfMillis(millis)
Word(start, end, text) == [start |-> Sec(start), end |-> Sec(end), text |-> text]

\* What model.transcribe(audio_path, language=..., word_timestamps=True) may return.
TranscribeOutputs(language) ==
    { [text |-> "hello world", language |-> language,
       segments |->
          << [start |-> Sec(500), end |-> Sec(2000), text |-> "hi",
              words |-> <<Word(1000, 1200, "h"), Word(1200, 1500, "i")>>],
             [start |-> Sec(2000), end |-> Sec(3000), text |-> "(music)", words |-> <<>>],
             [start |-> Sec(3000), end |-> Sec(4000), text |-> "um"],
             [start |-> Sec(59000), end |-> Sec(3662000), text |-> "there",
              words |-> <<Word(59999, 3661250, "there")>>] >>],
      [text |-> "annyeong", language |-> language,
       segments |->
          << [start |-> Sec(0), end |-> Sec(5000), text |-> "annyeong",
              words |-> <<Word(1200, 2000, "an"), Word(2000, 4350, "nyeong")>>] >>] }

\* What whisper.decode(model, mel, options) may return.
DecodeOutputs(language) ==
    { [text |-> "hello", language |-> language],
      [text |-> "annyeong haseyo", language |-> language] }

\* What model.detect_language(mel) may return as its probabilities: a dict, in
\* its iteration order, the probabilities in percent.
LanguageProbs ==
    { << <<"en", 20>>, <<"ko", 70>>, <<"ja", 10>> >>,
      << <<"en", 40>>, <<"ko", 40>>, <<"ja", 20>> >> }

\* max(probs, key=probs.get): the first key, in iteration order, of the largest value.
ArgMax(p) ==
    LET best == CHOOSE i \in 1..Len(p) :
                   /\ \A j \in 1..Len(p) : p[j][2] <= p[i][2]
                   /\ \A j \in 1..(i - 1) : p[j][2] < p[i][2]
    IN  p[best][1]

\* probs[lang]
ProbOf(p, lang) == p[CHOOSE i \in 1..Len(p) : p[i][1] = lang][2]

(***************************************************************************)
(* The program's state                                                     *)
(***************************************************************************)
VARIABLES
    pc,             \* where the process is: the next step of main
    args,           \* argparse's namespace
    listing,        \* the input folders that exist, with os.listdir's answer
    dirs,           \* the other directories that exist
    files,          \* the files the program wrote: path |-> chunks written
    atStart,        \* dirs and files as they were when this run started
    trace,          \* this run's steps of main, as they start
    calls,          \* this run's calls of the library and of the operating system
    stdout,         \* this run's printed lines
    model, audio, mel, probs, detected_lang, discarded, \* transcribe_audio's locals
    result,         \* main's result
    runs,           \* the number of runs started
    unitIn, unitOut \* the argument and the value of a function applied on its own

pipeline == <<pc, args, listing, dirs, files, atStart, trace, calls, stdout, model,
              audio, mel, probs, detected_lang, discarded, result, runs>>
unit == <<unitIn, unitOut>>
vars == <<pipeline, unit>>

\* The number of times the program is run, one run after the other.
MaxRuns == 2

Unset == [unset |-> TRUE]

Terminal == {"returned", "finished", "raised"}

\* os.path.exists(p)
Exists(p) ==
    \/ p \in DOMAIN listing
    \/ p \in dirs
    \/ p \in DOMAIN files
    \/ \E d \in DOMAIN listing : \E i \in 1..Len(listing[d]) :
          NormPath(PathJoin(d, listing[d][i])) = NormPath(p)

\* A call that returned ret, and a call that raised.
Called(fn, a, ret) == [fn |-> fn, args |-> a, raised |-> FALSE, ret |-> ret]
Raised(fn, a) == [fn |-> fn, args |-> a, raised |-> TRUE, ret |-> Unset]

\* if verbose: print(...)
Verbose(lines) == IF ~args.quiet THEN lines ELSE <<>>

Locals == <<model, audio, mel, probs, detected_lang, discarded, result>>

Init ==
    /\ pc = "idle"
    /\ args = Unset
    /\ listing \in FileSystems
    /\ dirs \in {{}, {ResultDir}}
    /\ files = <<>>
    /\ atStart = [dirs |-> dirs, files |-> files]
    /\ trace = <<>>
    /\ calls = <<>>
    /\ stdout = <<>>
    /\ model = Unset /\ audio = Unset /\ mel = Unset /\ probs = <<>>
    /\ detected_lang = "" /\ discarded = Unset /\ result = Unset
    /\ runs = 0
    /\ unitIn = Unset /\ unitOut = Unset

\* The program is started: argparse fills args.
Invoke ==
    /\ pc \in {"idle"} \cup Terminal
    /\ runs < MaxRuns
    /\ runs' = runs + 1
    /\ args' \in Args
    /\ pc' = "resolve"
    /\ atStart' = [dirs |-> dirs, files |-> files]
    /\ trace' = <<>> /\ calls' = <<>> /\ stdout' = <<>>
    /\ model' = Unset /\ audio' = Unset /\ mel' = Unset /\ probs' = <<>>
    /\ detected_lang' = "" /\ discarded' = Unset /\ result' = Unset
    /\ UNCHANGED <<listing, dirs, files, unit>>

\* A variant without the return statement: main goes on to line 154.
FallThrough == "load_model"

\* The return statements of lines 138, 144 and 151: main ends.
FolderNotFoundExit == "returned"
NoAudioFilesExit == "returned"
FileNotFoundExit == "returned"

\* main, lines 132-151: which audio file to process.
ResolveInput ==
    /\ pc = "resolve"
    /\ trace' = Append(trace, "resolve_input")
    /\ LET target_dir  == IF Truthy(args.folder) THEN args.folder ELSE DefaultFolder
           audio_files == Filter(listing[target_dir])
       IN  \/ /\ args.audio_file = NoneStr
              /\ ~Exists(target_dir)
              /\ stdout' = Append(stdout, [msg |-> "folder_not_found", path |-> target_dir])
              /\ pc' = FolderNotFoundExit
              /\ UNCHANGED args
           \/ /\ args.audio_file = NoneStr
              /\ Exists(target_dir)
              /\ Len(audio_files) = 0
              /\ stdout' = Append(stdout, [msg |-> "no_audio_files", path |-> target_dir])
              /\ pc' = NoAudioFilesExit
              /\ UNCHANGED args
           \/ /\ args.audio_file = NoneStr
              /\ Exists(target_dir)
              /\ Len(audio_files) > 0
              /\ args' = [args EXCEPT !.audio_file = PathJoin(target_dir, audio_files[1])]
              /\ stdout' = Append(stdout, [msg |-> "auto_selected", path |-> args'.audio_file])
              /\ pc' = "load_model"
           \/ /\ args.audio_file # NoneStr
              /\ ~Exists(args.audio_file)
              /\ stdout' = Append(stdout, [msg |-> "file_not_found", path |-> args.audio_file])
              /\ pc' = FileNotFoundExit
              /\ UNCHANGED args
           \/ /\ args.audio_file # NoneStr
              /\ Exists(args.audio_file)
              /\ pc' = "load_model"
              /\ UNCHANGED <<args, stdout>>
    /\ UNCHANGED <<listing, dirs, files, atStart, calls, Locals, runs, unit>>

\* A variant that catches the exception and lets main end normally.
Swallowed == "finished"

\* An exception leaves transcribe_audio and main: nothing catches it.
Uncaught == "raised"

\* A variant of main that prints the timestamps right after the transcription.
FormatterNext == "print_word_timestamps"

\* The order of main's statements after line 154: save_transcription (157),
\* print_word_timestamps (160-161), the transcript (164-165).
AfterTranscription == "save_transcription"
AfterSave == "print_word_timestamps"
AfterTimestamps == "print_result"

Raise(call) ==
    /\ calls' = Append(calls, call)
    /\ pc' = Uncaught

\* transcribe_audio(args.audio_file, args.model, verbose=not args.quiet), line
\* 154, to its line 28.
LoadModel ==
    /\ pc = "load_model"
    /\ trace' = Append(trace, "transcribe_audio")
    /\ \/ /\ Raise(Raised("whisper.load_model", <<args.model>>))
          /\ stdout' = stdout \o Verbose(<<[msg |-> "loading_model", model |-> args.model]>>)
          /\ UNCHANGED model
       \/ /\ model' = [name |-> args.model]
          /\ calls' = Append(calls, Called("whisper.load_model", <<args.model>>, model'))
          /\ stdout' = stdout \o Verbose(<<[msg |-> "loading_model", model |-> args.model],
                                          [msg |-> "model_loaded"],
                                          [msg |-> "transcription_start", path |-> args.audio_file]>>)
          /\ pc' = "load_audio"
    /\ UNCHANGED <<args, listing, dirs, files, atStart, audio, mel, probs, detected_lang,
                   discarded, result, runs, unit>>

\* line 31
LoadAudio ==
    /\ pc = "load_audio"
    /\ \/ /\ Raise(Raised("whisper.load_audio", <<args.audio_file>>))
          /\ UNCHANGED audio
       \/ /\ audio' = [path |-> args.audio_file, window |-> FALSE]
          /\ calls' = Append(calls, Called("whisper.load_audio", <<args.audio_file>>, audio'))
          /\ pc' = "pad_or_trim"
    /\ UNCHANGED <<args, listing, dirs, files, atStart, trace, stdout, model, mel, probs,
                   detected_lang, discarded, result, runs, unit>>

\* line 32
PadOrTrim ==
    /\ pc = "pad_or_trim"
    /\ \/ /\ Raise(Raised("whisper.pad_or_trim", <<audio>>))
          /\ UNCHANGED audio
       \/ /\ audio' = [audio EXCEPT !.window = TRUE]
          /\ calls' = Append(calls, Called("whisper.pad_or_trim", <<audio>>, audio'))
          /\ pc' = "log_mel_spectrogram"
    /\ UNCHANGED <<args, listing, dirs, files, atStart, trace, stdout, model, mel, probs,
                   detected_lang, discarded, result, runs, unit>>

\* line 35
LogMelSpectrogram ==
    /\ pc = "log_mel_spectrogram"
    /\ \/ /\ Raise(Raised("whisper.log_mel_spectrogram", <<audio, model>>))
          /\ UNCHANGED mel
       \/ /\ mel' = [of |-> audio, dims |-> model]
          /\ calls' = Append(calls, Called("whisper.log_mel_spectrogram", <<audio, model>>, mel'))
          /\ pc' = "detect_language"
    /\ UNCHANGED <<args, listing, dirs, files, atStart, trace, stdout, model, audio, probs,
                   detected_lang, discarded, result, runs, unit>>

\* lines 38-42
DetectLanguage ==
    /\ pc = "detect_language"
    /\ \/ /\ Raise(Raised("model.detect_language", <<mel>>))
          /\ UNCHANGED <<probs, detected_lang, stdout>>
       \/ /\ probs' \in LanguageProbs
          /\ calls' = Append(calls, Called("model.detect_language", <<mel>>, probs'))
          /\ detected_lang' = ArgMax(probs')
          /\ stdout' = stdout \o Verbose(<<[msg |-> "detected_language",
                                           language |-> detected_lang',
                                           prob |-> ProbOf(probs', detected_lang')]>>)
          /\ pc' = "decode"
    /\ UNCHANGED <<args, listing, dirs, files, atStart, trace, model, audio, mel,
                   discarded, result, runs, unit>>

\* DecodingOptions(language=detected_lang, fp16=False), line 45
DecodingOptions == [language |-> detected_lang, fp16 |-> FALSE]

\* lines 45-46: the value is bound to _ and never read.
Decode ==
    /\ pc = "decode"
    /\ \/ /\ Raise(Raised("whisper.decode", <<model, mel, DecodingOptions>>))
          /\ UNCHANGED discarded
       \/ /\ discarded' \in DecodeOutputs(DecodingOptions.language)
          /\ calls' = Append(calls, Called("whisper.decode", <<model, mel, DecodingOptions>>,
                                           discarded'))
          /\ pc' = "transcribe"
    /\ UNCHANGED <<args, listing, dirs, files, atStart, trace, stdout, model, audio, mel,
                   probs, detected_lang, result, runs, unit>>

\* The arguments of model.transcribe, lines 50-54.
TranscribeArgs == [audio |-> args.audio_file, language |-> detected_lang,
                   word_timestamps |-> TRUE]

\* A variant that returns what whisper.decode gave.
ReturnedDecoded(full_result) == discarded

\* return full_result, line 59
Returned(full_result) == full_result

\* lines 50-59, and the assignment to result in main, line 154.
Transcribe ==
    /\ pc = "transcribe"
    /\ \/ /\ Raise(Raised("model.transcribe", <<TranscribeArgs>>))
          /\ UNCHANGED <<result, stdout>>
       \/ /\ \E full_result \in TranscribeOutputs(TranscribeArgs.language) :
                /\ calls' = Append(calls, Called("model.transcribe", <<TranscribeArgs>>,
                                                 full_result))
                /\ result' = Returned(full_result)
          /\ stdout' = stdout \o Verbose(<<[msg |-> "transcription_done"]>>)
          /\ pc' = AfterTranscription
    /\ UNCHANGED <<args, listing, dirs, files, atStart, trace, model, audio, mel, probs,
                   detected_lang, discarded, runs, unit>>

\* save_transcription, lines 106-110: the path of the file to write.
OutputFile(output_file, audio_path) ==
    IF output_file = NoneStr /\ audio_path # NoneStr
    THEN LET base_name        == Basename(audio_path)
             name_without_ext == SplitextRoot(base_name)
         IN  ResultDir \o <<"/">> \o name_without_ext \o TxtSuffix
    ELSE output_file

\* A variant that opens with 'a': the file keeps what it holds.
OpenedForAppend(content) == content

\* open(path, 'w'): what the file holds once it is open.
Opened(content) == <<>>

\* with open(output_file, 'w') as f: f.write(text), lines 113-114
WriteFile(fs, path, text) ==
    [p \in DOMAIN fs \cup {path} |->
        IF p = path
        THEN Append(Opened(IF path \in DOMAIN fs THEN fs[path] ELSE <<>>), text)
        ELSE fs[p]]

\* save_transcription(result, args.output, args.audio_file), line 157.  The
\* operating system may refuse os.makedirs and open.
SaveTranscription ==
    /\ pc = "save_transcription"
    /\ trace' = Append(trace, "save_transcription")
    /\ LET output_file == OutputFile(args.output, args.audio_file)
           made        == IF ResultDir \in dirs THEN <<>>
                          ELSE <<Called("os.makedirs", <<ResultDir>>, Unset)>>
       IN  \/ /\ ResultDir \notin dirs
              /\ Raise(Raised("os.makedirs", <<ResultDir>>))
              /\ UNCHANGED <<dirs, files, stdout>>
           \/ /\ Truthy(output_file)
              /\ dirs' = dirs \cup {ResultDir}
              /\ calls' = calls \o made \o <<Raised("open", <<output_file>>)>>
              /\ pc' = Uncaught
              /\ UNCHANGED <<files, stdout>>
           \/ /\ Truthy(output_file)
              /\ dirs' = dirs \cup {ResultDir}
              /\ files' = WriteFile(files, output_file, result.text)
              /\ calls' = calls \o made \o <<Called("open", <<output_file>>, Unset),
                                             Called("f.write", <<result.text>>, Unset)>>
              /\ stdout' = Append(stdout, [msg |-> "saved", path |-> output_file])
              /\ pc' = AfterSave
           \/ /\ ~Truthy(output_file)
              /\ dirs' = dirs \cup {ResultDir}
              /\ calls' = calls \o made
              /\ pc' = AfterSave
              /\ UNCHANGED <<files, stdout>>
    /\ UNCHANGED <<args, listing, atStart, Locals, runs, unit>>

\* main, lines 160-161
PrintWordTimestamps ==
    /\ pc = "print_word_timestamps"
    /\ trace' = Append(trace, "print_word_timestamps")
    /\ stdout' = stdout \o <<[msg |-> "timestamps_header"]>> \o print_word_timestamps(result)
    /\ pc' = AfterTimestamps
    /\ UNCHANGED <<args, listing, dirs, files, atStart, calls, Locals, runs, unit>>

\* main, lines 164-165
PrintResult ==
    /\ pc = "print_result"
    /\ stdout' = stdout \o <<[msg |-> "result_header"], [msg |-> "text", text |-> result.text]>>
    /\ pc' = "finished"
    /\ UNCHANGED <<args, listing, dirs, files, atStart, trace, calls, Locals, runs, unit>>

Next ==
    \/ Invoke
    \/ ResolveInput
    \/ LoadModel \/ LoadAudio \/ PadOrTrim \/ LogMelSpectrogram
    \/ DetectLanguage \/ Decode \/ Transcribe
    \/ SaveTranscription
    \/ PrintWordTimestamps
    \/ PrintResult

Spec == Init /\ [][Next]_vars

(***************************************************************************)
(* format_time and print_word_timestamps applied on their own              *)
(***************************************************************************)
\* No process runs.
NoRun ==
    /\ pc = "idle" /\ args = Unset /\ runs = 0
    /\ listing = [d \in {MusicFolder} |-> MusicListing]
    /\ dirs = {} /\ files = <<>> /\ atStart = [dirs |-> {}, files |-> <<>>]
    /\ trace = <<>> /\ calls = <<>> /\ stdout = <<>>
    /\ model = Unset /\ audio = Unset /\ mel = Unset /\ probs = <<>>
    /\ detected_lang = "" /\ discarded = Unset /\ result = Unset

\* Whole seconds around the minute, the hour, the day and a hundred hours.
FormatSeconds == {0, 1, 9, 59, 60, 61, 3599, 3600, 3661, 86399, 359999, 360000}

\* The decimal literals s.mmm, as milliseconds.
FormatInputs == {s * 1000 + ms : s \in FormatSeconds, ms \in 0..999}

InitFormat == NoRun /\ unitIn \in FormatInputs /\ unitOut = Unset

FormatTime ==
    /\ unitOut = Unset
    /\ unitOut' = [value |-> format_time(Sec(unitIn))]
    /\ UNCHANGED <<pipeline, unitIn>>

SpecFormat == InitFormat /\ [][FormatTime]_vars

\* The segments a result is made of: with words, with no words, with no
\* "words" key.
SegmentShapes ==
    { [start |-> Sec(500), end |-> Sec(2000), text |-> "hi",
       words |-> <<Word(1000, 1200, "h"), Word(1200, 1500, "i")>>],
      [start |-> Sec(59000), end |-> Sec(3662000), text |-> "there",
       words |-> <<Word(59999, 3661250, "there")>>],
      [start |-> Sec(2000), end |-> Sec(3000), text |-> "(music)", words |-> <<>>],
      [start |-> Sec(3000), end |-> Sec(4000), text |-> "um"] }

\* The longest result, in segments.
MaxSegments == 3

SeqsUpTo(S, n) == UNION {[1..k -> S] : k \in 0..n}

TimestampInputs ==
    {[text |-> "no segments"]}
    \cup {[text |-> "some text", segments |-> segs] : segs \in SeqsUpTo(SegmentShapes, MaxSegments)}

InitTimestamps == NoRun /\ unitIn \in TimestampInputs /\ unitOut = Unset

WordTimestamps ==
    /\ unitOut = Unset
    /\ unitOut' = [lines |-> print_word_timestamps(unitIn)]
    /\ UNCHANGED <<pipeline, unitIn>>

SpecTimestamps == InitTimestamps /\ [][WordTimestamps]_vars

(***************************************************************************)
(* Properties                                                              *)
(***************************************************************************)
\* The elements of a sequence.
Range(q) == {q[i] : i \in 1..Len(q)}

\* s.mmm formatted by exact arithmetic on the decimal: hours, minutes and
\* seconds of the whole part, and the three decimal places.
ClockOfMillis(n) ==
    LET s == n \div 1000
    IN  Flat(<<ZeroPad(Decimal(s \div 3600), 2), <<":">>,
               ZeroPad(Decimal((s % 3600) \div 60), 2), <<":">>,
               ZeroPad(Decimal(s % 60), 2), <<".">>,
               ZeroPad(Decimal(n % 1000), 3)>>)

FormatTimeExamples ==
    unitOut # Unset =>
        /\ unitIn = 0 => unitOut.value = <<"0", "0", ":", "0", "0", ":", "0", "0", ".", "0", "0", "0">>
        /\ unitIn = 3661250 => unitOut.value = <<"0", "1", ":", "0", "1", ":", "0", "1", ".", "2", "5", "0">>
        /\ unitIn = 59999 => unitOut.value = <<"0", "0", ":", "0", "0", ":", "5", "9", ".", "9", "9", "9">>
        /\ unitIn = 1200 => unitOut.value = <<"0", "0", ":", "0", "0", ":", "0", "1", ".", "1", "9", "9">>

\* A name ends, whatever the case of its letters, in one of the four extensions.
HasAudioExtension(name) ==
    \E k \in {4, 5} :
        /\ Len(name) >= k
        /\ Lower(SubSeq(name, Len(name) - k + 1, Len(name)))
              \in {<<".", "w", "a", "v">>, <<".", "m", "p", "3">>,
                   <<".", "f", "l", "a", "c">>, <<".", "m", "4", "a">>}

\* A path without a leading "./".
WithoutDot(p) ==
    IF Len(p) >= 2 /\ p[1] = "." /\ p[2] = "/" THEN SubSeq(p, 3, Len(p)) ELSE p

\* A folder's path joined with the name of one of its entries.
Joined(folder, name) ==
    folder \o (IF folder[Len(folder)] = "/" THEN <<>> ELSE <<"/">>) \o name

\* The path names something on the disk: a folder, a directory, a written file
\* or an entry of a folder.
OnDisk(p) ==
    WithoutDot(p) \in
        { WithoutDot(q) : q \in DOMAIN listing \cup dirs \cup DOMAIN files }
        \cup UNION { { WithoutDot(Joined(d, listing[d][i])) : i \in 1..Len(listing[d]) } :
                     d \in DOMAIN listing }

\* The folder main searches when args names no audio file.
SearchFolder == IF args.folder = NoneStr THEN DefaultFolder ELSE args.folder

\* The calls of the Whisper library, in the order of transcribe_audio.
LibraryOrder == <<"whisper.load_model", "whisper.load_audio", "whisper.pad_or_trim",
                  "whisper.log_mel_spectrogram", "model.detect_language",
                  "whisper.decode", "model.transcribe">>
LibraryFns == {LibraryOrder[i] : i \in 1..Len(LibraryOrder)}

\* The run changed nothing on the disk.
DiskUntouched == dirs = atStart.dirs /\ files = atStart.files

\* The messages of stdout.
Printed == {stdout[i].msg : i \in 1..Len(stdout)}

\* The paths this run opened for writing.
OpenedPaths == {calls[i].args[1] : i \in {j \in 1..Len(calls) : calls[j].fn = "open" /\ ~calls[j].raised}}

\* C1: a run with an explicit audio file path that is not on the disk prints
\* the file-not-found message and returns at once; in that run the model is
\* neither loaded nor invoked, no file is written and the result directory is
\* not created.
C1_FileNotFound ==
    (pc \notin {"idle", "resolve"} /\ args.audio_file # NoneStr /\ ~OnDisk(args.audio_file)) =>
        /\ pc = "returned"
        /\ stdout = <<[msg |-> "file_not_found", path |-> args.audio_file]>>
        /\ trace = <<"resolve_input">>
        /\ calls = <<>> /\ model = Unset /\ result = Unset
        /\ DiskUntouched

\* An explicit file is missing although an earlier run wrote a result.
C1_Witness ==
    /\ pc = "returned"
    /\ args.audio_file = DemoAudio
    /\ "file_not_found" \in Printed
    /\ runs = 2
    /\ atStart.files # <<>>

\* C2: with no explicit audio file, the resolving step of a run whose folder
\* (./target unless --folder names one) does not exist prints the
\* folder-not-found message and returns, and of a run whose folder exists but
\* holds no entry ending in .wav, .mp3, .flac or .m4a, in any case of the
\* letters, prints the no-audio-files message and returns; in both cases
\* nothing of the library has been called, nothing is written, and the run is
\* over: only a new run follows.
C2_NoInput ==
    [][ /\ (pc = "resolve" /\ args.audio_file = NoneStr /\ pc' # "resolve") =>
              LET folder == SearchFolder
                  failed(m) == /\ pc' = "returned"
                               /\ stdout' = <<[msg |-> m, path |-> folder]>>
                               /\ calls' = <<>> /\ model' = Unset /\ result' = Unset
                               /\ dirs' = dirs /\ files' = files
              IN  /\ ~OnDisk(folder) => failed("folder_not_found")
                  /\ (/\ folder \in DOMAIN listing
                      /\ \A i \in 1..Len(listing[folder]) : ~HasAudioExtension(listing[folder][i]))
                        => failed("no_audio_files")
        /\ pc = "returned" => (pc' = "resolve" /\ runs' = runs + 1)
      ]_vars

\* ./target holds entries, none of them an audio file, and the run returned.
C2_Witness ==
    /\ pc = "returned"
    /\ args.audio_file = NoneStr /\ args.folder = NoneStr
    /\ DefaultFolder \in DOMAIN listing
    /\ Len(listing[DefaultFolder]) > 0
    /\ stdout = <<[msg |-> "no_audio_files", path |-> DefaultFolder]>>
    /\ DiskUntouched

\* C3: with no explicit audio file and a folder that exists and holds at least
\* one entry with an audio extension, the resolving step does not fail and
\* selects the first such entry in listing order: the audio file becomes the
\* folder's path joined with that entry's name.
C3_AutoSelect ==
    [][ (/\ pc = "resolve" /\ args.audio_file = NoneStr /\ pc' # "resolve"
         /\ SearchFolder \in DOMAIN listing
         /\ \E i \in 1..Len(listing[SearchFolder]) : HasAudioExtension(listing[SearchFolder][i])) =>
            LET entries == listing[SearchFolder]
                first   == CHOOSE i \in 1..Len(entries) :
                              /\ HasAudioExtension(entries[i])
                              /\ \A j \in 1..(i - 1) : ~HasAudioExtension(entries[j])
            IN  /\ pc' = "load_model"
                /\ args'.audio_file = Joined(SearchFolder, entries[first])
                /\ stdout' = <<[msg |-> "auto_selected", path |-> args'.audio_file]>>
      ]_vars

\* The first entry of ./target is no audio file, the second is selected and a
\* third one matches as well.
C3_Witness ==
    /\ pc = "load_model"
    /\ args.folder = NoneStr
    /\ "auto_selected" \in Printed
    /\ DefaultFolder \in DOMAIN listing
    /\ Len(listing[DefaultFolder]) = 3
    /\ ~HasAudioExtension(listing[DefaultFolder][1])
    /\ HasAudioExtension(listing[DefaultFolder][3])
    /\ args.audio_file = Joined(DefaultFolder, listing[DefaultFolder][2])

\* The segments of a result, and those with a non-empty word list.
SegmentsOf(full_result) ==
    IF "segments" \in DOMAIN full_result THEN full_result.segments ELSE <<>>
Spoken(segments) ==
    {i \in 1..Len(segments) : "words" \in DOMAIN segments[i] /\ Len(segments[i].words) > 0}

\* C5: print_word_timestamps prints one line for each segment with a non-empty
\* word list and none for the others, in the order of the segments; the k-th
\* line carries format_time of the first word's start and of the last word's
\* end of the k-th such segment, and that segment's text.
C5_WordTimestamps ==
    unitOut # Unset =>
        LET segments == SegmentsOf(unitIn)
            spoken   == Spoken(segments)
            lines    == unitOut.lines
        IN  /\ Len(lines) = Cardinality(spoken)
            /\ \A i \in spoken :
                  LET k     == Cardinality({j \in spoken : j <= i})
                      words == segments[i].words
                  IN  lines[k] = [msg   |-> "segment",
                                  start |-> format_time(words[1].start),
                                  end   |-> format_time(words[Len(words)].end),
                                  text  |-> segments[i].text]

\* Three segments: one line is printed, for a segment whose words start and
\* end at other times than the segment, and two segments give no line.
C5_Witness ==
    /\ unitOut # Unset
    /\ Len(SegmentsOf(unitIn)) = 3
    /\ Len(unitOut.lines) = 1
    /\ \E i \in Spoken(SegmentsOf(unitIn)) :
          /\ unitOut.lines[1].start # format_time(SegmentsOf(unitIn)[i].start)
          /\ unitOut.lines[1].end # format_time(SegmentsOf(unitIn)[i].end)
    /\ \E i \in 1..3 : "words" \notin DOMAIN SegmentsOf(unitIn)[i]
    /\ \E i \in 1..3 : "words" \in DOMAIN SegmentsOf(unitIn)[i] /\ Len(SegmentsOf(unitIn)[i].words) = 0

\* save_transcription has returned to main.
SaveReturned == pc \in {"print_word_timestamps", "print_result", "finished"}

\* C6: once save_transcription has returned, the result directory exists and
\* exactly one file was written in the run: the one at the explicit output
\* path when --output gave one, and else at result/<audio basename without its
\* extension>.txt; it holds the result's text and nothing else.
C6_SaveTranscription ==
    SaveReturned =>
        LET path == IF args.output # NoneStr THEN args.output
                    ELSE ResultDir \o <<"/">> \o SplitextRoot(Basename(args.audio_file)) \o TxtSuffix
        IN  /\ ResultDir \in dirs
            /\ OpenedPaths = {path}
            /\ path \in DOMAIN files
            /\ files[path] = <<result.text>>

\* C7: a step either is a successful save_transcription, after which the file
\* at its path holds exactly the text of the result it was given, whatever the
\* file held before, or leaves every file as it is.
C7_Overwrite ==
    [][ \A p \in DOMAIN files' :
           IF /\ pc = "save_transcription"
              /\ \E i \in (Len(calls) + 1)..Len(calls') :
                    calls'[i].fn = "open" /\ ~calls'[i].raised /\ calls'[i].args = <<p>>
           THEN files'[p] = <<result.text>>
           ELSE p \in DOMAIN files /\ files'[p] = files[p]
      ]_vars

\* A run saved to a path that held another text when the run started.
C7_Witness ==
    /\ pc = "print_word_timestamps"
    /\ \E p \in OpenedPaths :
          /\ p \in DOMAIN atStart.files
          /\ atStart.files[p] # <<result.text>>
          /\ files[p] = <<result.text>>

\* The steps of main are taken at most once each and in the order given.
InOrder(order) ==
    \A i \in 1..Len(trace) :
        /\ \E r \in 1..Len(order) : order[r] = trace[i]
        /\ \A j \in (i + 1)..Len(trace) :
              \E r, q \in 1..Len(order) : r < q /\ order[r] = trace[i] /\ order[q] = trace[j]

\* Neither the formatter nor the writer runs before transcribe_audio has
\* returned the result.
AfterResult ==
    ("print_word_timestamps" \in Range(trace) \/ "save_transcription" \in Range(trace)) =>
        /\ result # Unset
        /\ \E i \in 1..Len(calls) : calls[i].fn = "model.transcribe" /\ calls[i].ret = result

\* C8 as the specification states it: each stage runs at most once, in the
\* order resolver, invoker, formatter, writer; the timestamp lines are printed
\* before the result file is written.
C8_StageOrder ==
    /\ InOrder(<<"resolve_input", "transcribe_audio", "print_word_timestamps", "save_transcription">>)
    /\ (OpenedPaths # {} \/ "save_transcription" \in Range(trace))
          => "timestamps_header" \in Printed
    /\ AfterResult

\* C8, amended: each stage runs at most once, in the order resolver, invoker,
\* writer, formatter; the result file is written, when one is written, before
\* the timestamp lines are printed, and neither the writer nor the formatter
\* runs before the transcription result has been produced.
C8_StageOrderAmended ==
    /\ InOrder(<<"resolve_input", "transcribe_audio", "save_transcription", "print_word_timestamps">>)
    /\ "timestamps_header" \in Printed =>
          /\ "save_transcription" \in Range(trace)
          /\ pc \in {"print_result", "finished"}
    /\ pc = "save_transcription" => Printed \cap {"timestamps_header", "segment"} = {}
    /\ AfterResult

\* A run went through the four stages, wrote its file and printed a line.
C8_Witness ==
    /\ pc = "finished"
    /\ trace = <<"resolve_input", "transcribe_audio", "save_transcription", "print_word_timestamps">>
    /\ OpenedPaths # {}
    /\ {"saved", "timestamps_header", "segment"} \subseteq Printed

\* C9: when a call of the library in transcribe_audio has raised, the run is
\* over with the exception: no call follows the one that raised, no file is
\* written, the result directory is not created, and neither timestamp lines
\* nor the transcript are printed.
C9_TranscriptionFailed ==
    (\E i \in 1..Len(calls) : calls[i].raised /\ calls[i].fn \in LibraryFns) =>
        /\ pc = "raised"
        /\ calls[Len(calls)].raised
        /\ \A i \in 1..Len(calls) : calls[i].fn \in LibraryFns
        /\ trace = <<"resolve_input", "transcribe_audio">>
        /\ result = Unset
        /\ DiskUntouched
        /\ Printed \cap {"saved", "timestamps_header", "segment", "result_header", "text"} = {}

\* The full transcription raised, after the six other calls had returned, with
\* no result directory on the disk.
C9_Witness ==
    /\ pc = "raised"
    /\ Len(calls) = 7
    /\ calls[7].fn = "model.transcribe" /\ calls[7].raised
    /\ ResultDir \notin dirs

\* C10: the calls of the library are made in the order load_model, load_audio,
\* pad_or_trim, log_mel_spectrogram, detect_language, decode, transcribe, each
\* once; the language given to transcribe has the largest of the detected
\* probabilities, and the result main gets is what transcribe returned,
\* whatever decode returned.
C10_TranscribeAudio ==
    LET n == Cardinality({i \in 1..Len(calls) : calls[i].fn \in LibraryFns})
    IN  /\ n <= Len(LibraryOrder)
        /\ \A i \in 1..n : calls[i].fn = LibraryOrder[i]
        /\ \A i \in 1..(n - 1) : ~calls[i].raised
        /\ (n >= 1 /\ ~calls[1].raised) => calls[1].args = <<args.model>>
        /\ n = 7 =>
              LET p        == calls[5].ret
                  language == calls[7].args[1].language
              IN  /\ \E i \in 1..Len(p) : p[i][1] = language /\ \A j \in 1..Len(p) : p[j][2] <= p[i][2]
                  /\ calls[7].args[1].audio = args.audio_file
                  /\ calls[7].args[1].word_timestamps
                  /\ calls[6].args[3].language = language
        /\ result # Unset => n = 7 /\ ~calls[7].raised /\ result = calls[7].ret
        /\ (pc \in {"save_transcription", "print_word_timestamps", "print_result", "finished"})
              => result # Unset

\* transcribe_audio returned a result whose text is not the one decode gave,
\* for a detection in which two languages share the largest probability.
C10_Witness ==
    /\ pc = "save_transcription"
    /\ result # Unset /\ discarded # Unset
    /\ result.text = "hello world" /\ discarded.text = "annyeong haseyo"
    /\ \E i, j \in 1..Len(probs) : i # j /\ probs[i][2] = probs[j][2] /\ probs[i][1] = detected_lang

====
